---- MODULE Spec2Model ----
(***************************************************************************)
(* Model of package customerimporter (src/unnamed/part_003, the current    *)
(* revision; src/interview.go is the earlier sequential revision).         *)
(*                                                                         *)
(* ProcessCustomers reads a CSV file with one goroutine per line,          *)
(* counts e-mail domains with one goroutine per record, sorts the counts   *)
(* by domain and optionally writes them to a CSV file.                     *)
(*                                                                         *)
(* Strings are sequences of one-character strings, so that Contains,       *)
(* Split, ToLower, the CSV reader and the CSV writer are computed the way  *)
(* the Go library computes them.                                           *)
(***************************************************************************)
EXTENDS Integers, Sequences, FiniteSets, TLC

\* Largest number of lines of an input file.
MaxLines == 3

----------------------------------------------------------------------------
(* Strings *)

Str_email == <<"e", "m", "a", "i", "l">>

\* The printable ASCII characters in the order of their byte values, from
\* the space (32) to the tilde (126), without the grave accent (96), which
\* has no string literal here: the first 64 are the bytes 32..95, the others
\* the bytes 97..126.
AsciiPrintable ==
    <<
      " ", "!", "\"", "#", "$", "%", "&", "'", "(", ")", "*", "+",
      ",", "-", ".", "/", "0", "1", "2", "3", "4", "5", "6", "7",
      "8", "9", ":", ";", "<", "=", ">", "?", "@", "A", "B", "C",
      "D", "E", "F", "G", "H", "I", "J", "K", "L", "M", "N", "O",
      "P", "Q", "R", "S", "T", "U", "V", "W", "X", "Y", "Z", "[",
      "\\", "]", "^", "_", "a", "b", "c", "d", "e", "f", "g",
      "h", "i", "j", "k", "l", "m", "n", "o", "p", "q", "r", "s",
      "t", "u", "v", "w", "x", "y", "z", "{", "|", "}", "~">>

\* The byte value of each printable ASCII character.
AsciiCode ==
    [c \in {AsciiPrintable[i] : i \in 1..Len(AsciiPrintable)} |->
        LET i == CHOOSE k \in 1..Len(AsciiPrintable) : AsciiPrintable[k] = c
        IN  IF i <= 64 THEN 31 + i ELSE 32 + i]

\* The vertical tab (U+000B), the next line character (U+0085) and the
\* no-break space (U+00A0); a string literal has no escape for them, so they
\* stand in the literal as they are.
Char_VT   == ""
Char_NEL  == ""
Char_NBSP == " "

\* The Latin-1 characters U+00C0..U+00DE and U+00E0..U+00FE in the order of
\* their code points: the upper-case letters with the multiplication sign
\* (U+00D7) among them, and 32 code points further their lower-case letters
\* with the division sign (U+00F7).
Latin1Upper ==
    <<"À", "Á", "Â", "Ã", "Ä", "Å", "Æ", "Ç", "È", "É", "Ê", "Ë", "Ì",
      "Í", "Î", "Ï", "Ð", "Ñ", "Ò", "Ó", "Ô", "Õ", "Ö", "×", "Ø", "Ù",
      "Ú", "Û", "Ü", "Ý", "Þ">>
Latin1Lower ==
    <<"à", "á", "â", "ã", "ä", "å", "æ", "ç", "è", "é", "ê", "ë", "ì",
      "í", "î", "ï", "ð", "ñ", "ò", "ó", "ô", "õ", "ö", "÷", "ø", "ù",
      "ú", "û", "ü", "ý", "þ">>

\* Code point of a character.  Go orders strings byte by byte, and on UTF-8
\* text that is the order of the code points.
CharCode(c) ==
    CASE c = "\t" -> 9
      [] c = "\n" -> 10
      [] c = Char_VT -> 11
      [] c = "\f" -> 12
      [] c = "\r" -> 13
      [] c = Char_NEL -> 133
      [] c = Char_NBSP -> 160
      [] \E i \in 1..Len(Latin1Upper) : Latin1Upper[i] = c ->
             191 + (CHOOSE i \in 1..Len(Latin1Upper) : Latin1Upper[i] = c)
      [] \E i \in 1..Len(Latin1Lower) : Latin1Lower[i] = c ->
             223 + (CHOOSE i \in 1..Len(Latin1Lower) : Latin1Lower[i] = c)
      [] OTHER -> AsciiCode[c]

\* utf8.RuneLen: the number of bytes of a character in a Go string.
RuneLen(c) == IF CharCode(c) < 128 THEN 1 ELSE 2

\* len(s) of Go: the number of bytes of the string.
ByteLen(s) == Len(s) + Cardinality({i \in 1..Len(s) : RuneLen(s[i]) = 2})

\* Index of the first occurrence of character c in s, 0 when there is none
\* (bytes.IndexByte / strings.IndexByte, one-based).
IndexByte(s, c) ==
    IF \E i \in 1..Len(s) : s[i] = c
    THEN CHOOSE i \in 1..Len(s) : s[i] = c /\ \A j \in 1..(i - 1) : s[j] # c
    ELSE 0

\* strings.Contains(s, c) for a one-character c.
Contains(s, c) == IndexByte(s, c) > 0

UpperCase ==
    <<"A", "B", "C", "D", "E", "F", "G", "H", "I", "J", "K", "L", "M",
      "N", "O", "P", "Q", "R", "S", "T", "U", "V", "W", "X", "Y", "Z">>
LowerCase ==
    <<"a", "b", "c", "d", "e", "f", "g", "h", "i", "j", "k", "l", "m",
      "n", "o", "p", "q", "r", "s", "t", "u", "v", "w", "x", "y", "z">>

\* unicode.ToLower on an ASCII or Latin-1 character: an upper-case letter
\* becomes its lower-case letter, every other character stays (the
\* multiplication sign is no letter).
ToLowerChar(c) ==
    IF \E i \in 1..Len(UpperCase) : UpperCase[i] = c
    THEN LowerCase[CHOOSE i \in 1..Len(UpperCase) : UpperCase[i] = c]
    ELSE IF c # "×" /\ \E i \in 1..Len(Latin1Upper) : Latin1Upper[i] = c
    THEN Latin1Lower[CHOOSE i \in 1..Len(Latin1Upper) : Latin1Upper[i] = c]
    ELSE c

\* strings.ToLower(s).
ToLower(s) == [i \in 1..Len(s) |-> ToLowerChar(s[i])]

\* strings.Split(s, sep) for a one-character sep: the substrings between the
\* occurrences of sep, one more than the number of occurrences.
RECURSIVE Split(_, _)
Split(s, sep) ==
    LET i == IndexByte(s, sep)
    IN  IF i = 0 THEN <<s>>
        ELSE <<SubSeq(s, 1, i - 1)>> \o Split(SubSeq(s, i + 1, Len(s)), sep)

\* Go's string order a < b: byte-wise lexicographic, a proper prefix first.
RECURSIVE StrLess(_, _)
StrLess(a, b) ==
    IF b = <<>> THEN FALSE
    ELSE IF a = <<>> THEN TRUE
    ELSE IF CharCode(Head(a)) # CharCode(Head(b))
         THEN CharCode(Head(a)) < CharCode(Head(b))
    ELSE StrLess(Tail(a), Tail(b))

----------------------------------------------------------------------------
(* encoding/csv Reader.Read on one line (no newline, default settings) *)

ParseOk(fields) == [ok |-> TRUE, record |-> fields]
ParseErr == [ok |-> FALSE, record |-> <<>>]

RECURSIVE ParseField(_, _)
RECURSIVE ParseQuoted(_, _, _)

\* The parseField loop: line is the unread rest, fields the fields so far.
ParseField(line, fields) ==
    IF line = <<>> \/ Head(line) # "\""
    THEN \* non-quoted field
         LET i == IndexByte(line, ",")
             field == IF i > 0 THEN SubSeq(line, 1, i - 1) ELSE line
         IN  IF Contains(field, "\"") THEN ParseErr        \* ErrBareQuote
             ELSE IF i > 0
                  THEN ParseField(SubSeq(line, i + 1, Len(line)), Append(fields, field))
                  ELSE ParseOk(Append(fields, field))
    ELSE ParseQuoted(Tail(line), <<>>, fields)

\* Inside a quoted field: buf is the field's text so far.
ParseQuoted(line, buf, fields) ==
    LET i == IndexByte(line, "\"")
    IN  IF i = 0 THEN ParseErr                              \* ErrQuote: no closing quote
        ELSE LET buf2 == buf \o SubSeq(line, 1, i - 1)
                 rest == SubSeq(line, i + 1, Len(line))
             IN  IF rest = <<>> THEN ParseOk(Append(fields, buf2))
                 ELSE IF Head(rest) = "\"" THEN ParseQuoted(Tail(rest), Append(buf2, "\""), fields)
                 ELSE IF Head(rest) = "," THEN ParseField(Tail(rest), Append(fields, buf2))
                 ELSE ParseErr                              \* ErrQuote: quote in wrong place

\* reader.Read() of csv.NewReader(strings.NewReader(data)): readLine drops
\* one carriage return at the end of the data, and an empty line is io.EOF,
\* which the callers treat like every other error.
ReaderRead(data) ==
    LET line == IF data # <<>> /\ data[Len(data)] = "\r"
                THEN SubSeq(data, 1, Len(data) - 1)
                ELSE data
    IN  IF line = <<>> THEN ParseErr ELSE ParseField(line, <<>>)

----------------------------------------------------------------------------
(* findEmailColumn *)

\* A findEmailColumn that compares the field with "email" as it is written.
IsEmailField_CaseSensitive(field) == Contains(field, "@") \/ field = Str_email

\* The loop condition of findEmailColumn for one field.
IsEmailField(field) == Contains(field, "@") \/ ToLower(field) = Str_email

\* findEmailColumn(record): the zero-based index of the first field that
\* contains "@" or is "email" in any case; -1 with an error when none is.
findEmailColumn(record) ==
    IF \E i \in 1..Len(record) : IsEmailField(record[i])
    THEN [col |-> (CHOOSE i \in 1..Len(record) :
                      /\ IsEmailField(record[i])
                      /\ \A j \in 1..(i - 1) : ~IsEmailField(record[j])) - 1,
          err |-> FALSE]
    ELSE [col |-> -1, err |-> TRUE]

----------------------------------------------------------------------------
(* The domain table: a Go map[string]int as a function on its key set *)

EmptyMap == [d \in {} |-> 0]

\* m[d] of a Go map: the zero value for a missing key.
MapGet(m, d) == IF d \in DOMAIN m THEN m[d] ELSE 0

\* An assignment that leaves only the assigned key in the map.
MapSet_Replace(m, d, v) == [k \in {d} |-> v]

\* m[d] = v.
MapSet(m, d, v) == [k \in (DOMAIN m) \cup {d} |-> IF k = d THEN v ELSE m[k]]

\* A per-record test that accepts every field with an "@".
RecordCounts_AnyAt(rec, col) ==
    /\ ~(Len(rec) <= col)
    /\ Len(Split(rec[col + 1], "@")) >= 2

\* The per-record test of countEmailDomains: a record too short for the
\* email column, or whose email field does not split into two parts at "@",
\* is skipped.
RecordCounts(rec, col) ==
    /\ ~(Len(rec) <= col)
    /\ Len(Split(rec[col + 1], "@")) = 2

\* The domain key of a counted record: parts[1].
RecordDomain(rec, col) == Split(rec[col + 1], "@")[2]

\* The loop of the sequential countEmailDomains (src/interview.go) over
\* recs[1..n] with column col.
RECURSIVE CountLoop(_, _, _)
CountLoop(recs, n, col) ==
    IF n = 0 THEN EmptyMap
    ELSE LET m == CountLoop(recs, n - 1, col)
         IN  IF RecordCounts(recs[n], col)
             THEN MapSet(m, RecordDomain(recs[n], col),
                         MapGet(m, RecordDomain(recs[n], col)) + 1)
             ELSE m

\* The sequential countEmailDomains of src/interview.go.
countEmailDomainsSeq(recs) ==
    IF Len(recs) = 0 THEN [table |-> EmptyMap, err |-> <<"no records provided">>]
    ELSE LET c == findEmailColumn(recs[1])
         IN  IF c.err THEN [table |-> EmptyMap, err |-> <<"email column not found">>]
             ELSE [table |-> CountLoop(recs, Len(recs), c.col), err |-> <<>>]

----------------------------------------------------------------------------
(* sortDomains *)

\* A less function with the comparison turned round.
LessByDomain_Descending(a, b) == StrLess(b.Domain, a.Domain)

\* The less function handed to sort.Slice by sortDomains: alphabetical order.
LessByDomain(a, b) == StrLess(a.Domain, b.Domain)

\* The inner loop of the insertion sort that sort.Slice runs on slices this
\* short: x moves left from position j + 1 while it is less than its left
\* neighbour.
RECURSIVE InsertLeft(_, _, _)
InsertLeft(s, x, j) ==
    IF j > 0 /\ LessByDomain(x, s[j])
    THEN InsertLeft(s, x, j - 1)
    ELSE SubSeq(s, 1, j) \o <<x>> \o SubSeq(s, j + 1, Len(s))

\* sort.Slice(counts, less) on counts[1..n].
RECURSIVE SortSlice(_, _)
SortSlice(counts, n) ==
    IF n = 0 THEN <<>>
    ELSE InsertLeft(SortSlice(counts, n - 1), counts[n], n - 1)

\* All orders in which a range loop can visit the keys of map m.
IterationOrders(m) ==
    {o \in [1..Cardinality(DOMAIN m) -> DOMAIN m] :
        \A i, j \in 1..Cardinality(DOMAIN m) : i # j => o[i] # o[j]}

\* sortDomains(domainCounts) when the range loop visits the keys in order o.
sortDomains(m, o) ==
    SortSlice([i \in 1..Len(o) |-> [Domain |-> o[i], Count |-> m[o[i]]]], Len(o))

----------------------------------------------------------------------------
(* sortAndSave of the earlier revision: the sort *)

\* A less function that puts the smaller count first.
LessByCount_Ascending(a, b) == a.Count < b.Count

\* The less function handed to sort.Slice by sortAndSave: larger count first.
LessByCount(a, b) == a.Count > b.Count

\* The insertion loop of sort.Slice, as InsertLeft, with sortAndSave's less.
RECURSIVE InsertLeftByCount(_, _, _)
InsertLeftByCount(s, x, j) ==
    IF j > 0 /\ LessByCount(x, s[j])
    THEN InsertLeftByCount(s, x, j - 1)
    ELSE SubSeq(s, 1, j) \o <<x>> \o SubSeq(s, j + 1, Len(s))

\* sort.Slice(counts, less) on counts[1..n] in sortAndSave.
RECURSIVE SortSliceByCount(_, _)
SortSliceByCount(counts, n) ==
    IF n = 0 THEN <<>>
    ELSE InsertLeftByCount(SortSliceByCount(counts, n - 1), counts[n], n - 1)

\* The slice sortAndSave writes when its range loop visits the keys in
\* order o.
sortByCount(m, o) ==
    SortSliceByCount([i \in 1..Len(o) |-> [Domain |-> o[i], Count |-> m[o[i]]]], Len(o))

----------------------------------------------------------------------------
(* saveToFile: strconv.Itoa and encoding/csv Writer.Write *)

Digits == <<"0", "1", "2", "3", "4", "5", "6", "7", "8", "9">>

\* strconv.Itoa(n) for n >= 0.
RECURSIVE Itoa(_)
Itoa(n) == IF n < 10 THEN <<Digits[n + 1]>>
           ELSE Itoa(n \div 10) \o <<Digits[(n % 10) + 1]>>

\* unicode.IsSpace on an ASCII or Latin-1 character.
IsSpace(c) == c \in {"\t", "\n", Char_VT, "\f", "\r", " ", Char_NEL, Char_NBSP}

\* csv.Writer.fieldNeedsQuotes: never for the empty field, always for the
\* field \. , else for a field with a comma, quote, carriage return or
\* newline, or with a space character first.
fieldNeedsQuotes(field) ==
    IF field = <<>> THEN FALSE
    ELSE IF field = <<"\\", ".">> THEN TRUE
    ELSE \/ \E i \in 1..Len(field) : field[i] \in {",", "\"", "\r", "\n"}
         \/ IsSpace(field[1])

\* The quoted form of a field: quotes doubled, the whole in quotes.
RECURSIVE QuoteBody(_)
QuoteBody(field) ==
    IF field = <<>> THEN <<>>
    ELSE (IF Head(field) = "\"" THEN <<"\"", "\"">> ELSE <<Head(field)>>)
         \o QuoteBody(Tail(field))

\* A writer that never quotes a field.
WriteField_NoQuotes(field) == field

\* csv.Writer.Write on one field.
WriteField(field) ==
    IF fieldNeedsQuotes(field) THEN <<"\"">> \o QuoteBody(field) \o <<"\"">>
    ELSE field

\* The bytes writer.Write([]string{dc.Domain, strconv.Itoa(dc.Count)}) adds.
WriteEntry(dc) == WriteField(dc.Domain) \o <<",">> \o WriteField(Itoa(dc.Count)) \o <<"\n">>

\* The buffer after the write loop of saveToFile over report[1..n].
RECURSIVE WriteAll(_, _)
WriteAll(report, n) ==
    IF n = 0 THEN <<>> ELSE WriteAll(report, n - 1) \o WriteEntry(report[n])

\* The size of the buffer bufio.NewWriter gives the csv.Writer.
BufferSize == 4096

\* The calls csv.Writer.Write makes on its bufio.Writer for the inside of a
\* quoted field, each call given by its number of bytes: WriteString of the
\* text before the next quote, carriage return or newline, then WriteString
\* of two quotes or WriteByte of the carriage return or newline.
RECURSIVE QuotedCalls(_)
QuotedCalls(field) ==
    IF field = <<>> THEN <<>>
    ELSE LET special == {j \in 1..Len(field) : field[j] \in {"\"", "\r", "\n"}}
             i == IF special = {} THEN Len(field) + 1
                  ELSE CHOOSE j \in special : \A k \in special : j <= k
         IN  <<ByteLen(SubSeq(field, 1, i - 1))>>
             \o (IF i > Len(field) THEN <<>>
                 ELSE <<IF field[i] = "\"" THEN 2 ELSE 1>>
                      \o QuotedCalls(SubSeq(field, i + 1, Len(field))))

\* The calls for one field: WriteString(field), or WriteByte of the quote
\* before and after the calls for the inside.
FieldCalls(field) ==
    IF fieldNeedsQuotes(field) THEN <<1>> \o QuotedCalls(field) \o <<1>>
    ELSE <<ByteLen(field)>>

\* The calls of writer.Write([]string{dc.Domain, strconv.Itoa(dc.Count)}):
\* the first field, WriteRune of the comma, the second field, WriteByte of
\* the newline.
EntryCalls(dc) ==
    FieldCalls(dc.Domain) \o <<1>> \o FieldCalls(Itoa(dc.Count)) \o <<1>>

\* The calls of the write loop over report[1..n].
RECURSIVE AllCalls(_, _)
AllCalls(report, n) ==
    IF n = 0 THEN <<>> ELSE AllCalls(report, n - 1) \o EntryCalls(report[n])

\* The number of bytes of the first write to the file that the calls from
\* calls[i] on cause, n bytes being in the buffer; 0 when the calls cause
\* none.  A call of more bytes than the buffer has room for writes: the
\* string itself when the buffer is empty (the file is an io.StringWriter),
\* else the filled buffer.
RECURSIVE FirstWrite(_, _, _)
FirstWrite(calls, i, n) ==
    IF i > Len(calls) THEN 0
    ELSE IF calls[i] > BufferSize - n
         THEN IF n = 0 THEN calls[i] ELSE BufferSize
    ELSE FirstWrite(calls, i + 1, n + calls[i])

\* The number of leading characters of s that b bytes hold.
CharsWithin(s, b) ==
    Cardinality({k \in 1..Len(s) : ByteLen(SubSeq(s, 1, k)) <= b})

----------------------------------------------------------------------------
(* Inputs *)

Line_header == <<"n", ",", "E", "M", "a", "i", "l">>                 \* n,EMail
Line_x      == <<"a", ",", "b", "@", "x">>                          \* a,b@x
Line_xy     == <<"a", ",", "\"", "b", "@", "x", ",", "y", "\"">>    \* a,"b@x,y"
Line_plain  == <<"a">>                                              \* a
Line_bad    == <<"a", "\"">>                                        \* a"
\* Stands for a line longer than bufio.MaxScanTokenSize: the scanner stops
\* there and scanner.Err() is bufio.ErrTooLong.
Line_long   == <<"LONG">>

Lines == {Line_header, Line_x, Line_xy, Line_plain, Line_bad, Line_long}

\* reader.Read() on each line of the model, computed once.
LineRecord == [l \in Lines |-> ReaderRead(l)]

\* The input files: a missing file, or up to MaxLines lines.
InputFiles ==
    {[exists |-> FALSE, lines |-> <<>>]} \cup
    {[exists |-> TRUE, lines |-> l] : l \in UNION {[1..n -> Lines] : n \in 0..MaxLines}}

\* The variadic outputFile argument: absent or one path.
OutputFiles == {<<>>, <<"out.csv">>}

\* What the file system does to saveToFile.
IOFaults == {"none", "create", "flush"}

NoError == <<>>

----------------------------------------------------------------------------
(* State *)

VARIABLES
    inputFile,      \* the input file: whether it can be opened, and its lines
    outputFile,     \* the outputFile argument of ProcessCustomers
    pc,             \* where ProcessCustomers is
    scanned,        \* processCSVLines: lines the scanner has returned
    records,        \* processCSVLines: the shared record accumulator
    lineMutex,      \* processCSVLines: holder of mutex, 0 when free
    lineWg,         \* processCSVLines: the WaitGroup counter
    lineWorker,     \* processLine goroutines, one per line
    csvRecords,     \* ProcessCustomers: what readCSV returned
    emailColumn,    \* countEmailDomains: the email column index
    dispatched,     \* countEmailDomains: records handed to a goroutine
    domainCounts,   \* countEmailDomains: the shared domain table
    countMutex,     \* countEmailDomains: holder of mutex, 0 when free
    countWg,        \* countEmailDomains: the WaitGroup counter
    countWorker,    \* countEmailDomains goroutines, one per record
    sortedDomains,  \* ProcessCustomers: what sortDomains returned
    outFile,        \* what this run did to the output destination
    ioFault,        \* the file system's behaviour towards saveToFile
    result,         \* what ProcessCustomers returned
    run,            \* 1: first call, 2: a second call on the same input
    prev            \* the first call's outcome, once a second call started

vars == <<inputFile, outputFile, pc, scanned, records, lineMutex, lineWg,
          lineWorker, csvRecords, emailColumn, dispatched, domainCounts,
          countMutex, countWg, countWorker, sortedDomains, outFile, ioFault,
          result, run, prev>>

readVars  == <<scanned, records, lineMutex, lineWg, lineWorker>>
countVars == <<emailColumn, dispatched, domainCounts, countMutex, countWg,
               countWorker>>
saveVars  == <<sortedDomains, outFile, ioFault>>
callVars  == <<inputFile, outputFile, run, prev>>

IdleWorker == [pc |-> "idle", tmp |-> <<>>]
Untouched  == [created |-> FALSE, bytes |-> <<>>]
NoResult   == [report |-> <<>>, err |-> NoError]

\* The state in which a call of ProcessCustomers starts.
CallState(in, out) ==
    /\ inputFile = in
    /\ outputFile = out
    /\ pc = "open"
    /\ scanned = 0
    /\ records = <<>>
    /\ lineMutex = 0
    /\ lineWg = 0
    /\ lineWorker = [i \in 1..Len(in.lines) |-> IdleWorker]
    /\ csvRecords = <<>>
    /\ emailColumn = -1
    /\ dispatched = 0
    /\ domainCounts = EmptyMap
    /\ countMutex = 0
    /\ countWg = 0
    /\ countWorker = <<>>
    /\ sortedDomains = <<>>
    /\ outFile = Untouched
    /\ result = NoResult

Init ==
    /\ \E in \in InputFiles, out \in OutputFiles : CallState(in, out)
    /\ ioFault = "unset"
    /\ run = 1
    /\ prev = <<>>

\* Records for calls of countEmailDomains on its own.
Rec_header   == <<<<"n">>, <<"E", "M", "a", "i", "l">>>>               \* n | EMail
Rec_x        == <<<<"a">>, <<"b", "@", "x">>>>                         \* a | b@x
Rec_y        == <<<<"a">>, <<"b", "@", "y">>>>                         \* a | b@y
Rec_short    == <<<<"a">>>>                                            \* a
Rec_two      == <<<<"a">>, <<"b", "@", "x", "@", "y">>>>               \* a | b@x@y
Rec_nodomain == <<<<"a">>, <<"b", "@">>>>                              \* a | b@
Rec_at       == <<<<"b", "@", "x">>, <<"e", "m", "a", "i", "l">>>>     \* b@x | email

Records == {Rec_header, Rec_x, Rec_y, Rec_short, Rec_two, Rec_nodomain, Rec_at}

\* Largest number of records of a direct call of countEmailDomains.
MaxRecords == 3

NoFile == [exists |-> FALSE, lines |-> <<>>]

\* countEmailDomains(recs) called on its own, as its test does.
InitCount ==
    /\ \E recs \in UNION {[1..n -> Records] : n \in 0..MaxRecords} :
          /\ inputFile = NoFile
          /\ outputFile = <<>>
          /\ pc = "count"
          /\ scanned = 0
          /\ records = <<>>
          /\ lineMutex = 0
          /\ lineWg = 0
          /\ lineWorker = <<>>
          /\ csvRecords = recs
          /\ emailColumn = -1
          /\ dispatched = 0
          /\ domainCounts = EmptyMap
          /\ countMutex = 0
          /\ countWg = 0
          /\ countWorker = <<>>
          /\ sortedDomains = <<>>
          /\ outFile = Untouched
          /\ result = NoResult
    /\ ioFault = "unset"
    /\ run = 1
    /\ prev = <<>>

----------------------------------------------------------------------------
(* sync.Mutex and the return of ProcessCustomers *)

\* A Lock() that does not wait: the goroutines run unsynchronised.
MutexFree_NoWait(m) == TRUE

\* mutex.Lock() proceeds only when nobody holds the mutex.
MutexFree(m) == m = 0

\* return report, err.
Return(report, err) ==
    /\ result' = [report |-> report, err |-> err]
    /\ pc' = "returned"

----------------------------------------------------------------------------
(* readCSV / processCSVLines / processLine *)

\* os.Open(filename) in readCSV.
OpenFile ==
    /\ pc = "open"
    /\ IF inputFile.exists
       THEN /\ pc' = "scan"
            /\ UNCHANGED result
       ELSE Return(<<>>, <<"failed to read CSV", "failed to open file", "open error">>)
    /\ UNCHANGED <<readVars, csvRecords, countVars, saveVars, callVars>>

\* One iteration of the scan loop: scanner.Scan() returns a line, wg.Add(1),
\* go processLine(data, ...).
Scan ==
    /\ pc = "scan"
    /\ scanned < Len(inputFile.lines)
    /\ inputFile.lines[scanned + 1] # Line_long
    /\ scanned' = scanned + 1
    /\ lineWg' = lineWg + 1
    /\ lineWorker' = [lineWorker EXCEPT ![scanned + 1].pc = "run"]
    /\ UNCHANGED <<pc, result, records, lineMutex, csvRecords, countVars,
                   saveVars, callVars>>

\* A processCSVLines that does not look at scanner.Err(): it waits for the
\* goroutines and returns what they appended.
ScanError_Ignored ==
    /\ pc = "scan"
    /\ scanned < Len(inputFile.lines)
    /\ inputFile.lines[scanned + 1] = Line_long
    /\ lineWg = 0
    /\ csvRecords' = records
    /\ pc' = "count"
    /\ UNCHANGED <<result, readVars, countVars, saveVars, callVars>>

\* scanner.Scan() fails on a too long line; scanner.Err() is not nil and
\* processCSVLines returns without wg.Wait().
ScanError ==
    /\ pc = "scan"
    /\ scanned < Len(inputFile.lines)
    /\ inputFile.lines[scanned + 1] = Line_long
    /\ Return(<<>>, <<"failed to read CSV", "scanner error", "token too long">>)
    /\ UNCHANGED <<readVars, csvRecords, countVars, saveVars, callVars>>

\* The scanner is at the end of the file, scanner.Err() is nil, and wg.Wait()
\* returns: processCSVLines and readCSV return the accumulator.
LineWait ==
    /\ pc = "scan"
    /\ scanned = Len(inputFile.lines)
    /\ lineWg = 0
    /\ csvRecords' = records
    /\ pc' = "count"
    /\ UNCHANGED <<result, readVars, countVars, saveVars, callVars>>

\* A processLine without the return on a failed reader.Read(): it goes on to
\* append the nil record.
LineParseFail_NoReturn(i) ==
    /\ lineWorker[i].pc = "run"
    /\ ~LineRecord[inputFile.lines[i]].ok
    /\ lineMutex = 0
    /\ lineMutex' = i
    /\ lineWorker' = [lineWorker EXCEPT ![i] = [pc |-> "append", tmp |-> records]]
    /\ UNCHANGED <<pc, result, scanned, records, lineWg, csvRecords,
                   countVars, saveVars, callVars>>

\* processLine: reader.Read() fails; the deferred wg.Done() runs.
LineParseFail(i) ==
    /\ lineWorker[i].pc = "run"
    /\ ~LineRecord[inputFile.lines[i]].ok
    /\ lineWorker' = [lineWorker EXCEPT ![i].pc = "exit"]
    /\ lineWg' = lineWg - 1
    /\ UNCHANGED <<pc, result, scanned, records, lineMutex, csvRecords,
                   countVars, saveVars, callVars>>

\* processLine: reader.Read() succeeds, mutex.Lock(), and the append reads
\* *records.
LineLock(i) ==
    /\ lineWorker[i].pc = "run"
    /\ LineRecord[inputFile.lines[i]].ok
    /\ MutexFree(lineMutex)
    /\ lineMutex' = i
    /\ lineWorker' = [lineWorker EXCEPT ![i] = [pc |-> "append", tmp |-> records]]
    /\ UNCHANGED <<pc, result, scanned, records, lineWg, csvRecords,
                   countVars, saveVars, callVars>>

\* processLine: the append stores *records, then mutex.Unlock().
LineAppend(i) ==
    /\ lineWorker[i].pc = "append"
    /\ records' = Append(lineWorker[i].tmp, LineRecord[inputFile.lines[i]].record)
    /\ lineMutex' = 0
    /\ lineWorker' = [lineWorker EXCEPT ![i] = [pc |-> "done", tmp |-> <<>>]]
    /\ UNCHANGED <<pc, result, scanned, lineWg, csvRecords, countVars,
                   saveVars, callVars>>

\* processLine: return nil; the deferred wg.Done() runs.
LineDone(i) ==
    /\ lineWorker[i].pc = "done"
    /\ lineWorker' = [lineWorker EXCEPT ![i].pc = "exit"]
    /\ lineWg' = lineWg - 1
    /\ UNCHANGED <<pc, result, scanned, records, lineMutex, csvRecords,
                   countVars, saveVars, callVars>>

----------------------------------------------------------------------------
(* countEmailDomains *)

\* A countEmailDomains that takes records[0] for the header and starts its
\* range loop at records[1].
CountEntry_SkipFirst ==
    /\ pc = "count"
    /\ IF Len(csvRecords) = 0
       THEN /\ Return(<<>>, <<"failed to count email domains", "no records provided">>)
            /\ UNCHANGED countVars
       ELSE IF findEmailColumn(csvRecords[1]).err
       THEN /\ Return(<<>>, <<"failed to count email domains",
                              "error finding email column", "email column not found">>)
            /\ UNCHANGED countVars
       ELSE /\ emailColumn' = findEmailColumn(csvRecords[1]).col
            /\ domainCounts' = EmptyMap
            /\ countWorker' = [i \in 1..Len(csvRecords) |-> IdleWorker]
            /\ dispatched' = 1
            /\ pc' = "dispatch"
            /\ UNCHANGED <<result, countMutex, countWg>>
    /\ UNCHANGED <<readVars, csvRecords, saveVars, callVars>>

\* The checks before the goroutines: no records, or no email column in
\* records[0], return an error.
CountEntry ==
    /\ pc = "count"
    /\ IF Len(csvRecords) = 0
       THEN /\ Return(<<>>, <<"failed to count email domains", "no records provided">>)
            /\ UNCHANGED countVars
       ELSE IF findEmailColumn(csvRecords[1]).err
       THEN /\ Return(<<>>, <<"failed to count email domains",
                              "error finding email column", "email column not found">>)
            /\ UNCHANGED countVars
       ELSE /\ emailColumn' = findEmailColumn(csvRecords[1]).col
            /\ domainCounts' = EmptyMap
            /\ countWorker' = [i \in 1..Len(csvRecords) |-> IdleWorker]
            /\ pc' = "dispatch"
            /\ UNCHANGED <<result, dispatched, countMutex, countWg>>
    /\ UNCHANGED <<readVars, csvRecords, saveVars, callVars>>

\* One iteration of the range loop: wg.Add(1), go func(rec).
Dispatch ==
    /\ pc = "dispatch"
    /\ dispatched < Len(csvRecords)
    /\ dispatched' = dispatched + 1
    /\ countWg' = countWg + 1
    /\ countWorker' = [countWorker EXCEPT ![dispatched + 1].pc = "run"]
    /\ UNCHANGED <<pc, result, readVars, csvRecords, emailColumn, domainCounts,
                   countMutex, saveVars, callVars>>

\* wg.Wait() returns after the loop; countEmailDomains returns the table.
CountWait ==
    /\ pc = "dispatch"
    /\ dispatched = Len(csvRecords)
    /\ countWg = 0
    /\ pc' = "sort"
    /\ UNCHANGED <<result, readVars, csvRecords, countVars, saveVars, callVars>>

\* A goroutine whose skip path returns without wg.Done().
CountSkip_NoDone(i) ==
    /\ countWorker[i].pc = "run"
    /\ ~RecordCounts(csvRecords[i], emailColumn)
    /\ countWorker' = [countWorker EXCEPT ![i].pc = "exit"]
    /\ UNCHANGED <<pc, result, readVars, csvRecords, emailColumn, dispatched,
                   domainCounts, countMutex, countWg, saveVars, callVars>>

\* The goroutine skips its record; the deferred wg.Done() runs.
CountSkip(i) ==
    /\ countWorker[i].pc = "run"
    /\ ~RecordCounts(csvRecords[i], emailColumn)
    /\ countWorker' = [countWorker EXCEPT ![i].pc = "exit"]
    /\ countWg' = countWg - 1
    /\ UNCHANGED <<pc, result, readVars, csvRecords, emailColumn, dispatched,
                   domainCounts, countMutex, saveVars, callVars>>

\* The goroutine has a domain: mutex.Lock(), and the increment reads
\* domainCounts[domain].
CountLock(i) ==
    /\ countWorker[i].pc = "run"
    /\ RecordCounts(csvRecords[i], emailColumn)
    /\ MutexFree(countMutex)
    /\ countMutex' = i
    /\ countWorker' = [countWorker EXCEPT ![i] =
            [pc |-> "incr",
             tmp |-> MapGet(domainCounts, RecordDomain(csvRecords[i], emailColumn))]]
    /\ UNCHANGED <<pc, result, readVars, csvRecords, emailColumn, dispatched,
                   domainCounts, countWg, saveVars, callVars>>

\* The increment stores domainCounts[domain], then mutex.Unlock().
CountIncr(i) ==
    /\ countWorker[i].pc = "incr"
    /\ domainCounts' = MapSet(domainCounts, RecordDomain(csvRecords[i], emailColumn),
                              countWorker[i].tmp + 1)
    /\ countMutex' = 0
    /\ countWorker' = [countWorker EXCEPT ![i] = [pc |-> "done", tmp |-> <<>>]]
    /\ UNCHANGED <<pc, result, readVars, csvRecords, emailColumn, dispatched,
                   countWg, saveVars, callVars>>

\* The goroutine returns; the deferred wg.Done() runs.
CountDone(i) ==
    /\ countWorker[i].pc = "done"
    /\ countWorker' = [countWorker EXCEPT ![i].pc = "exit"]
    /\ countWg' = countWg - 1
    /\ UNCHANGED <<pc, result, readVars, csvRecords, emailColumn, dispatched,
                   domainCounts, countMutex, saveVars, callVars>>

----------------------------------------------------------------------------
(* sortDomains, saveToFile and the end of ProcessCustomers *)

\* A ProcessCustomers that saves whether or not an outputFile was given.
SortDomains_AlwaysSave ==
    /\ pc = "sort"
    /\ \E o \in IterationOrders(domainCounts) :
          sortedDomains' = sortDomains(domainCounts, o)
    /\ pc' = "save"
    /\ UNCHANGED <<result, readVars, csvRecords, countVars, outFile, ioFault, callVars>>

\* sortDomains(domainCounts); without an outputFile ProcessCustomers returns
\* the sorted slice.
SortDomains ==
    /\ pc = "sort"
    /\ \E o \in IterationOrders(domainCounts) :
          /\ sortedDomains' = sortDomains(domainCounts, o)
          /\ IF Len(outputFile) > 0
             THEN /\ pc' = "save"
                  /\ UNCHANGED result
             ELSE Return(sortDomains(domainCounts, o), NoError)
    /\ UNCHANGED <<readVars, csvRecords, countVars, outFile, ioFault, callVars>>

\* saveToFile(sortedDomains, outputFile[0]) and the return of
\* ProcessCustomers.  The entries go to the buffer, which writes to the file
\* when a call finds it too full, and at buffer.Flush().  With the fault
\* "flush" the first write to the file fails after any proper part of its
\* bytes (a character the write cut is left out of the file): inside the
\* loop writer.Write returns the error and saveToFile returns it, after the
\* loop buffer.Flush() returns it.
SaveToFile ==
    /\ pc = "save"
    /\ \E f \in IOFaults :
          /\ ioFault \in {"unset", f}
          /\ ioFault' = f
          /\ LET buffer == WriteAll(sortedDomains, Len(sortedDomains))
                 inLoop == FirstWrite(AllCalls(sortedDomains, Len(sortedDomains)), 1, 0)
                 attempt == IF inLoop > 0 THEN inLoop ELSE ByteLen(buffer)
             IN  IF f = "create"
                 THEN /\ outFile' = outFile
                      /\ Return(sortedDomains, <<"failed to save domains",
                                   "error creating output file", "create error">>)
                 ELSE IF f = "flush" /\ attempt > 0
                 THEN /\ \E k \in 0..CharsWithin(buffer, attempt - 1) :
                            outFile' = [created |-> TRUE, bytes |-> SubSeq(buffer, 1, k)]
                      /\ Return(sortedDomains, <<"failed to save domains", "write error">>)
                 ELSE /\ outFile' = [created |-> TRUE, bytes |-> buffer]
                      /\ Return(sortedDomains, NoError)
    /\ UNCHANGED <<readVars, csvRecords, countVars, sortedDomains, callVars>>

----------------------------------------------------------------------------
(* Specification *)

\* A second call of ProcessCustomers once the first has returned, with or
\* without an output path: on the same file, or on the file with the lines
\* after the first in another order.  Goroutines the first call left behind
\* work on that call's own slice, mutex and WaitGroup, which the second call
\* does not share; the second call starts its own.  The file system behaves
\* as before.
Rerun ==
    /\ pc = "returned"
    /\ run = 1
    /\ outputFile' \in OutputFiles
    /\ \E p \in [1..Len(inputFile.lines) -> 1..Len(inputFile.lines)] :
          /\ \A i, j \in DOMAIN p : i # j => p[i] # p[j]
          /\ Len(inputFile.lines) > 0 => p[1] = 1
          /\ inputFile' = [inputFile EXCEPT !.lines =
                              [i \in 1..Len(inputFile.lines) |-> inputFile.lines[p[i]]]]
    /\ prev' = <<[inputFile |-> inputFile, outputFile |-> outputFile,
                  result |-> result, outFile |-> outFile,
                  domainCounts |-> domainCounts]>>
    /\ run' = 2
    /\ pc' = "open"
    /\ scanned' = 0
    /\ records' = <<>>
    /\ lineMutex' = 0
    /\ lineWg' = 0
    /\ lineWorker' = [i \in 1..Len(inputFile.lines) |-> IdleWorker]
    /\ csvRecords' = <<>>
    /\ emailColumn' = -1
    /\ dispatched' = 0
    /\ domainCounts' = EmptyMap
    /\ countMutex' = 0
    /\ countWg' = 0
    /\ countWorker' = <<>>
    /\ sortedDomains' = <<>>
    /\ outFile' = Untouched
    /\ result' = NoResult
    /\ UNCHANGED ioFault

NextRead ==
    \/ OpenFile
    \/ Scan
    \/ ScanError
    \/ LineWait
    \/ \E i \in DOMAIN lineWorker : LineParseFail(i)
    \/ \E i \in DOMAIN lineWorker : LineLock(i)
    \/ \E i \in DOMAIN lineWorker : LineAppend(i)
    \/ \E i \in DOMAIN lineWorker : LineDone(i)

NextCount ==
    \/ CountEntry
    \/ Dispatch
    \/ CountWait
    \/ \E i \in DOMAIN countWorker : CountSkip(i)
    \/ \E i \in DOMAIN countWorker : CountLock(i)
    \/ \E i \in DOMAIN countWorker : CountIncr(i)
    \/ \E i \in DOMAIN countWorker : CountDone(i)

NextSave ==
    \/ SortDomains
    \/ SaveToFile

Next == NextRead \/ NextCount \/ NextSave

\* One call of ProcessCustomers.
Spec == Init /\ [][Next]_vars

\* The lines of the calls that are followed to their end: one line for each
\* path through processLine and the goroutine of countEmailDomains (header,
\* counted row, skipped row, parse failure) and the line the scanner fails on.
PathLines == {Line_header, Line_x, Line_plain, Line_bad, Line_long}

InitFair ==
    /\ \E in \in {f \in InputFiles : \A i \in 1..Len(f.lines) : f.lines[i] \in PathLines},
          out \in OutputFiles : CallState(in, out)
    /\ ioFault = "unset"
    /\ run = 1
    /\ prev = <<>>

\* One call of ProcessCustomers under a scheduler that keeps running some
\* goroutine as long as one can run.
SpecFair == InitFair /\ [][Next]_vars /\ WF_vars(Next)

\* One call of countEmailDomains.
SpecCount == InitCount /\ [][NextCount]_vars

\* Two calls of ProcessCustomers in a row.
SpecRerun == Init /\ [][Next \/ Rerun]_vars

----------------------------------------------------------------------------
(* sortDomains, saveToFile and sortAndSave called on their own *)

\* Domains and counts of the tables and reports handed to the functions.
TableDomains == {<<"x">>, <<"c", ".", "f">>, <<"x", ",", "y">>, <<"E">>}
CountValues  == {1, 2, 12}

\* Largest number of keys of a table.
MaxKeys == 3

Tables ==
    UNION {[S -> CountValues] :
              S \in {T \in SUBSET TableDomains : Cardinality(T) <= MaxKeys}}

\* Largest number of entries of a report handed to saveToFile.
MaxEntries == 2

ReportEntries ==
    [Domain : TableDomains \cup {<<>>, <<"x", "\"">>, <<"\t", "x">>, <<Char_VT, "x">>},
     Count : CountValues]
Reports == UNION {[1..n -> ReportEntries] : n \in 0..MaxEntries}

\* The state in which a function of the save stage is entered at p.
StageState(p, out, table, report) ==
    /\ inputFile = NoFile
    /\ outputFile = out
    /\ pc = p
    /\ scanned = 0
    /\ records = <<>>
    /\ lineMutex = 0
    /\ lineWg = 0
    /\ lineWorker = <<>>
    /\ csvRecords = <<>>
    /\ emailColumn = -1
    /\ dispatched = 0
    /\ domainCounts = table
    /\ countMutex = 0
    /\ countWg = 0
    /\ countWorker = <<>>
    /\ sortedDomains = report
    /\ outFile = Untouched
    /\ result = NoResult
    /\ ioFault = "unset"
    /\ run = 1
    /\ prev = <<>>

\* sortDomains(domainCounts) on any table, with the rest of ProcessCustomers.
InitSort ==
    \E table \in Tables, out \in OutputFiles : StageState("sort", out, table, <<>>)

\* saveToFile(domainCounts, filePath) on any slice, as its test calls it.
InitSave ==
    \E report \in Reports : StageState("save", <<"out.csv">>, EmptyMap, report)

\* sortAndSave(domainCounts, outputFile) on any table.
InitSortAndSave ==
    \E table \in Tables : StageState("sortAndSave", <<"out.csv">>, table, <<>>)

\* sortAndSave: the range loop, sort.Slice, os.Create, the write loop and
\* the deferred writer.Flush(), whose error nobody reads.  With the fault
\* "flush" the first write to the file fails: inside the loop writer.Write
\* returns the error and sortAndSave returns it, in the deferred Flush the
\* error is lost and sortAndSave returns nil.
SortAndSave ==
    /\ pc = "sortAndSave"
    /\ \E o \in IterationOrders(domainCounts), f \in IOFaults :
          /\ ioFault \in {"unset", f}
          /\ ioFault' = f
          /\ LET counts == sortByCount(domainCounts, o)
                 buffer == WriteAll(counts, Len(counts))
                 inLoop == FirstWrite(AllCalls(counts, Len(counts)), 1, 0)
                 attempt == IF inLoop > 0 THEN inLoop ELSE ByteLen(buffer)
             IN  /\ sortedDomains' = counts
                 /\ IF f = "create"
                    THEN /\ outFile' = outFile
                         /\ Return(<<>>, <<"create error">>)
                    ELSE IF f = "flush" /\ attempt > 0
                    THEN /\ \E k \in 0..CharsWithin(buffer, attempt - 1) :
                               outFile' = [created |-> TRUE, bytes |-> SubSeq(buffer, 1, k)]
                         /\ Return(<<>>, IF inLoop > 0 THEN <<"write error">>
                                         ELSE NoError)
                    ELSE /\ outFile' = [created |-> TRUE, bytes |-> buffer]
                         /\ Return(<<>>, NoError)
    /\ UNCHANGED <<readVars, csvRecords, countVars, callVars>>

\* A second call of sortAndSave on the same table after a first call that
\* met no fault; the first call's file is kept in prev.
SortAndSaveAgain ==
    /\ pc = "returned"
    /\ run = 1
    /\ ioFault = "none"
    /\ prev' = <<[inputFile |-> inputFile, outputFile |-> outputFile,
                  result |-> result, outFile |-> outFile,
                  domainCounts |-> domainCounts]>>
    /\ run' = 2
    /\ pc' = "sortAndSave"
    /\ sortedDomains' = <<>>
    /\ outFile' = Untouched
    /\ result' = NoResult
    /\ UNCHANGED <<readVars, csvRecords, countVars, inputFile, outputFile, ioFault>>

\* sortDomains and what ProcessCustomers does after it, on any table.
SpecSort == InitSort /\ [][NextSave]_vars

\* One call of saveToFile.
SpecSave == InitSave /\ [][SaveToFile]_vars

\* sortAndSave, called once or twice on the same table.
SpecSortAndSave == InitSortAndSave /\ [][SortAndSave \/ SortAndSaveAgain]_vars

----------------------------------------------------------------------------
(* Vocabulary of the properties, stated without the operators of the model *)

\* The number of "@" characters of a string.
CountAt(str) == Cardinality({i \in 1..Len(str) : str[i] = "@"})

\* The text after the only "@" of a string with exactly one "@".
AfterAt(str) ==
    LET i == CHOOSE k \in 1..Len(str) : str[k] = "@"
    IN  [k \in 1..(Len(str) - i) |-> str[i + k]]

\* A record is well formed for column col: it has the column and the field
\* has exactly one "@".
WellFormed(rec, col) == Len(rec) > col /\ CountAt(rec[col + 1]) = 1

RECURSIVE SumOver(_, _)
SumOver(m, keys) ==
    IF keys = {} THEN 0
    ELSE LET d == CHOOSE k \in keys : TRUE
         IN  m[d] + SumOver(m, keys \ {d})

\* The sum of all counts of a table.
SumCounts(m) == SumOver(m, DOMAIN m)

\* How often value v occurs in sequence seq.
Occurrences(seq, v) == Cardinality({i \in 1..Len(seq) : seq[i] = v})

\* The lines of the input file that parse, by index.
GoodLines == {i \in 1..Len(inputFile.lines) : LineRecord[inputFile.lines[i]].ok}

\* The scanner reaches the end of the input file.
Scannable ==
    /\ inputFile.exists
    /\ \A i \in 1..Len(inputFile.lines) : inputFile.lines[i] # Line_long

ReadFailed ==
    /\ pc = "returned"
    /\ result.err # NoError
    /\ result.err[1] = "failed to read CSV"

\* readCSV has returned its records without error.
ReadReturnedOk ==
    \/ pc \in {"count", "dispatch", "sort", "save"}
    \/ pc = "returned" /\ ~ReadFailed

----------------------------------------------------------------------------
(* countEmailDomains on its own: SpecCount *)

\* C1: whatever the interleaving of its goroutines, countEmailDomains
\* returns the table that the sequential pass over the same records builds,
\* and fails exactly when the sequential pass fails.
C1_SameAsSequential ==
    /\ pc = "sort" =>
          /\ countEmailDomainsSeq(csvRecords).err = NoError
          /\ domainCounts = countEmailDomainsSeq(csvRecords).table
    /\ pc = "returned" => countEmailDomainsSeq(csvRecords).err # NoError

\* Two goroutines have incremented the same counter and a third another one.
C1_Witness ==
    /\ pc = "sort"
    /\ \E d \in DOMAIN domainCounts : domainCounts[d] >= 2
    /\ Cardinality(DOMAIN domainCounts) >= 2

\* C5: the counts of the returned table add up to the number of records
\* that have the email column and exactly one "@" in it; the other records
\* add nothing, and no record makes countEmailDomains fail (it fails only
\* on an empty list or a first record without an email column).
C5_SumOfCounts ==
    /\ pc = "sort" =>
          SumCounts(domainCounts) =
             Cardinality({i \in 1..Len(csvRecords) : WellFormed(csvRecords[i], emailColumn)})
    /\ pc = "returned" =>
          \/ Len(csvRecords) = 0
          \/ \A j \in 1..Len(csvRecords[1]) :
                /\ CountAt(csvRecords[1][j]) = 0
                /\ ToLower(csvRecords[1][j]) # Str_email

\* A too short record, a record with two "@" and a counted record were
\* aggregated together.
C5_Witness ==
    /\ pc = "sort"
    /\ \E i \in 1..Len(csvRecords) : Len(csvRecords[i]) <= emailColumn
    /\ \E i \in 1..Len(csvRecords) :
          Len(csvRecords[i]) > emailColumn /\ CountAt(csvRecords[i][emailColumn + 1]) = 2
    /\ SumCounts(domainCounts) = 1

\* C6: findEmailColumn prefers a field named "email": when the first record
\* has such a field the column is one of them, whatever comes before it, and
\* only otherwise is it the first field with an "@".
C6_EmailNameFirst ==
    pc \in {"dispatch", "sort"} =>
       LET header == csvRecords[1]
       IN  IF \E j \in 1..Len(header) : ToLower(header[j]) = Str_email
           THEN ToLower(header[emailColumn + 1]) = Str_email
           ELSE /\ CountAt(header[emailColumn + 1]) > 0
                /\ \A j \in 1..emailColumn : CountAt(header[j]) = 0

----------------------------------------------------------------------------
(* One call of ProcessCustomers: Spec *)

\* C2: the record that countEmailDomains resolves the column on, records[0],
\* is the parsed first line of the input file (when that line parses).
C2_FirstRecordIsFirstLine ==
    (pc = "count" /\ Len(csvRecords) > 0 /\ 1 \in GoodLines) =>
       csvRecords[1] = LineRecord[inputFile.lines[1]].record

\* The documented report for a file whose first line is the header
\* n,EMail: one entry per domain of the well-formed data rows, with the
\* number of those rows, ascending by domain.
HeaderColumn ==
    LET header == LineRecord[Line_header].record
    IN  (CHOOSE j \in 1..Len(header) : ToLower(header[j]) = Str_email) - 1
DataRows == {i \in GoodLines : i > 1}
RowDomain(i) == AfterAt(LineRecord[inputFile.lines[i]].record[HeaderColumn + 1])
CountedRows == {i \in DataRows : WellFormed(LineRecord[inputFile.lines[i]].record, HeaderColumn)}
ExpectedDomains == {RowDomain(i) : i \in CountedRows}
ExpectedReport ==
    CHOOSE rep \in [1..Cardinality(ExpectedDomains) ->
                       [Domain : ExpectedDomains, Count : 1..MaxLines]] :
       /\ \A d \in ExpectedDomains : \E k \in DOMAIN rep : rep[k].Domain = d
       /\ \A k \in DOMAIN rep :
             rep[k].Count = Cardinality({i \in CountedRows : RowDomain(i) = rep[k].Domain})
       /\ \A k \in 1..(Len(rep) - 1) : StrLess(rep[k].Domain, rep[k + 1].Domain)

\* C4: for a file whose first line is a header, ProcessCustomers returns
\* the ascending (domain, count) report of the data rows, and writes it when
\* an output path is given and the file system does not fail.
C4_HeaderFileReport ==
    (/\ pc = "returned"
     /\ Scannable
     /\ Len(inputFile.lines) >= 1
     /\ inputFile.lines[1] = Line_header
     /\ ioFault \in {"unset", "none"}) =>
       /\ result.err = NoError
       /\ result.report = ExpectedReport
       /\ Len(outputFile) > 0 =>
             outFile = [created |-> TRUE,
                        bytes |-> WriteAll(ExpectedReport, Len(ExpectedReport))]

\* C8: when readCSV returns without error, every record value occurs in the
\* returned slice exactly as often as among the lines that parse: nothing is
\* lost, duplicated or torn by the concurrent appends.
C8_RecordsAreTheGoodLines ==
    ReadReturnedOk =>
       \A r \in {csvRecords[k] : k \in 1..Len(csvRecords)}
                \cup {LineRecord[inputFile.lines[i]].record : i \in GoodLines} :
          Occurrences(csvRecords, r) =
             Cardinality({i \in GoodLines : LineRecord[inputFile.lines[i]].record = r})

\* Three goroutines have appended, and not in the order of the lines.
C8_Witness ==
    /\ ReadReturnedOk
    /\ Len(csvRecords) = 3
    /\ csvRecords[1] # LineRecord[inputFile.lines[1]].record
    /\ \E r \in {csvRecords[k] : k \in 1..3} : Occurrences(csvRecords, r) = 2

\* C9: a line that fails to parse affects only itself: it never makes
\* readCSV fail (only a missing file or a scanner error does), it adds no
\* record, and the record of every other line is in the result.
C9_BadLineAffectsOnlyItself ==
    /\ ReadFailed => ~Scannable
    /\ ReadReturnedOk =>
          /\ Len(csvRecords) = Cardinality(GoodLines)
          /\ \A i \in GoodLines :
                \E k \in 1..Len(csvRecords) :
                   csvRecords[k] = LineRecord[inputFile.lines[i]].record

\* readCSV returned the records of two lines of a file whose other line
\* failed to parse.
C9_Witness ==
    /\ ReadReturnedOk
    /\ Len(inputFile.lines) = 3
    /\ inputFile.lines[2] = Line_bad
    /\ Len(csvRecords) = 2
    /\ lineWorker[2].pc = "exit"

\* The input yields zero records: it can be scanned and no line parses.
ZeroRecords == Scannable /\ GoodLines = {}

\* C10: a file of only the header line yields the empty report and no
\* error (the only error possible is the writer's), and a file that yields
\* zero records yields the error "no records provided", no report, and no
\* output file.
C10_EmptyInputBoundary ==
    pc = "returned" =>
       /\ (inputFile.exists /\ inputFile.lines = <<Line_header>>) =>
             /\ result.report = <<>>
             /\ result.err # NoError => result.err[1] = "failed to save domains"
             /\ ioFault # "create" => result.err = NoError
       /\ ZeroRecords =>
             /\ result = [report |-> <<>>,
                          err |-> <<"failed to count email domains", "no records provided">>]
             /\ outFile = Untouched

\* The header-only file was processed and an empty output file written.
C10_Witness ==
    /\ pc = "returned"
    /\ inputFile.lines = <<Line_header>>
    /\ result = [report |-> <<>>, err |-> NoError]
    /\ outFile = [created |-> TRUE, bytes |-> <<>>]

\* Lines that all fail to parse were processed and ended in the error.
C10_WitnessZeroRecords ==
    /\ pc = "returned"
    /\ Len(inputFile.lines) = 2
    /\ ZeroRecords
    /\ result.err = <<"failed to count email domains", "no records provided">>

----------------------------------------------------------------------------
(* Two calls of ProcessCustomers: SpecRerun *)

\* C3: a second run on the same input file with the same output argument,
\* no write to the output file failing, returns the same error or success
\* and the same report as the first, and leaves the same output file.
C3_TwoRunsSameOutcome ==
    (/\ run = 2
     /\ pc = "returned"
     /\ prev[1].inputFile = inputFile
     /\ prev[1].outputFile = outputFile
     /\ ioFault # "flush") =>
       /\ result = prev[1].result
       /\ outFile = prev[1].outFile

\* Files f and g have the same first line and the same lines after it, as a
\* multiset.
SameHeaderSameRows(f, g) ==
    /\ f.exists = g.exists
    /\ Len(f.lines) = Len(g.lines)
    /\ Len(f.lines) > 0 => f.lines[1] = g.lines[1]
    /\ \A l \in Lines : Occurrences(f.lines, l) = Occurrences(g.lines, l)

\* C7: a run on a file with the header n,EMail and a run on the same file
\* with its data rows in another order end with the same domain table and
\* the same report.
C7_RowOrderInvariance ==
    (/\ run = 2
     /\ pc = "returned"
     /\ prev[1].inputFile # inputFile
     /\ SameHeaderSameRows(prev[1].inputFile, inputFile)
     /\ inputFile.lines[1] = Line_header) =>
       /\ domainCounts = prev[1].domainCounts
       /\ result.report = prev[1].result.report

----------------------------------------------------------------------------
(* One call of ProcessCustomers: Spec, continued *)

\* The read stage fails: the file is missing or the scanner stops on a line.
ReadStageFails == ~Scannable

\* The first record has no field with an "@" and no field named email.
NoColumnIn(rec) ==
    \A j \in 1..Len(rec) : CountAt(rec[j]) = 0 /\ ToLower(rec[j]) # Str_email

\* No stage after the read has run.
NoStageAfterRead ==
    /\ csvRecords = <<>>
    /\ emailColumn = -1
    /\ countWorker = <<>>

\* No stage after the checks of countEmailDomains has run, and the output
\* destination was neither created nor truncated.
NoStageAfterChecks ==
    /\ dispatched = 0
    /\ domainCounts = EmptyMap
    /\ \A i \in DOMAIN countWorker : countWorker[i].pc = "idle"
    /\ sortedDomains = <<>>
    /\ ioFault = "unset"
    /\ outFile = Untouched

\* C11: when the read stage fails, when there are zero records and when the
\* first record has no email column, ProcessCustomers returns no report and
\* an error that names the stage, no later stage has run, and the output
\* file is untouched; an error of these two stages never comes with a report
\* or a touched output file.
C11_ShortCircuit ==
    pc = "returned" =>
       /\ ReadStageFails =>
             /\ result.report = <<>>
             /\ result.err # NoError
             /\ result.err[1] = "failed to read CSV"
             /\ NoStageAfterRead
             /\ NoStageAfterChecks
       /\ (~ReadStageFails /\ (csvRecords = <<>> \/ NoColumnIn(csvRecords[1]))) =>
             /\ result.report = <<>>
             /\ result.err # NoError
             /\ result.err[1] = "failed to count email domains"
             /\ NoStageAfterChecks
       /\ (result.err # NoError /\ result.err[1] # "failed to save domains") =>
             /\ result.report = <<>>
             /\ NoStageAfterChecks

\* ProcessCustomers was given an output path, read three records, found no
\* email column in the first and returned the error without touching the
\* output file.
C11_Witness ==
    /\ pc = "returned"
    /\ Len(outputFile) > 0
    /\ Len(csvRecords) = 3
    /\ NoColumnIn(csvRecords[1])
    /\ result.err = <<"failed to count email domains",
                      "error finding email column", "email column not found">>
    /\ outFile = Untouched

\* The scanner failed after two lines were handed to goroutines, and
\* ProcessCustomers returned the read error.
C11_WitnessReadFails ==
    /\ pc = "returned"
    /\ inputFile.exists
    /\ scanned = 2
    /\ result.err # NoError
    /\ result.err[1] = "failed to read CSV"

\* C12: every return of ProcessCustomers is a report without an error or an
\* error without a report, also when the writer fails.
C12_ReportOrError ==
    pc = "returned" => (result.err = NoError \/ result.report = <<>>)

\* C13 (state part): without an output path nothing is created or written
\* and saveToFile is never entered, and the sorted report is still returned;
\* with a path the destination is touched only by saveToFile, after
\* sortDomains, and saveToFile has run when ProcessCustomers returns past
\* the count stage.
C13_WriterStates ==
    /\ Len(outputFile) = 0 =>
          /\ outFile = Untouched
          /\ pc # "save"
          /\ ioFault = "unset"
          /\ (pc = "returned" /\ result.err = NoError) => result.report = sortedDomains
    /\ (outFile # Untouched \/ ioFault # "unset") =>
          /\ Len(outputFile) > 0
          /\ pc = "returned"
          /\ result.report = sortedDomains
    /\ (/\ Len(outputFile) > 0
        /\ pc = "returned"
        /\ (result.err = NoError \/ result.err[1] = "failed to save domains")) =>
          ioFault # "unset"

\* C13: the writer runs only if an output path was supplied, and then
\* exactly once, after the sorter: the states are those of C13_WriterStates,
\* and the destination and the file system's answer change in one step only,
\* the step from saveToFile to the return.
C13_WriterOnlyWithPath ==
    /\ []C13_WriterStates
    /\ [][(outFile' # outFile \/ ioFault' # ioFault) =>
             (/\ pc = "save"
              /\ pc' = "returned"
              /\ outFile = Untouched
              /\ ioFault = "unset"
              /\ Len(outputFile) > 0)]_vars

\* ProcessCustomers without an output path returned a report of two
\* domains and created no file.
C13_Witness ==
    /\ pc = "returned"
    /\ Len(outputFile) = 0
    /\ result.err = NoError
    /\ Len(result.report) = 2
    /\ outFile = Untouched

\* C20: when readCSV has returned, on any path, every goroutine it started
\* has ended, and when countEmailDomains has returned, every goroutine it
\* started has ended.
C20_NoAbandonedWorker ==
    /\ pc \notin {"open", "scan"} =>
          \A i \in DOMAIN lineWorker : lineWorker[i].pc \in {"idle", "exit"}
    /\ pc \in {"sort", "save", "returned"} =>
          \A i \in DOMAIN countWorker : countWorker[i].pc \in {"idle", "exit"}

----------------------------------------------------------------------------
(* countEmailDomains on its own: SpecCount, continued *)

\* C19: a field with nothing after its "@" is not counted: the empty string
\* is never a key of the domain table.
C19_NoEmptyDomain == <<>> \notin DOMAIN domainCounts

----------------------------------------------------------------------------
(* Vocabulary for sorted reports and written files *)

\* a comes before b in byte-wise lexicographic order: at the first position
\* where they differ a has ended or has the smaller byte.
LexBefore(a, b) ==
    \E k \in 1..Len(b) :
        /\ \A i \in 1..(k - 1) : i <= Len(a) /\ a[i] = b[i]
        /\ \/ k = Len(a) + 1
           \/ k <= Len(a) /\ CharCode(a[k]) < CharCode(b[k])

\* The lines of a file: the text before each newline, and the text after
\* the last newline if the file does not end with one.
RECURSIVE LinesOf(_)
LinesOf(bytes) ==
    IF bytes = <<>> THEN <<>>
    ELSE IF \A i \in 1..Len(bytes) : bytes[i] # "\n" THEN <<bytes>>
    ELSE LET k == CHOOSE i \in 1..Len(bytes) :
                     bytes[i] = "\n" /\ \A j \in 1..(i - 1) : bytes[j] # "\n"
         IN  <<SubSeq(bytes, 1, k - 1)>> \o LinesOf(SubSeq(bytes, k + 1, Len(bytes)))

\* The number a string of decimal digits denotes; -1 for any other string.
RECURSIVE DecimalValue(_)
DecimalValue(str) ==
    IF str = <<>> THEN -1
    ELSE IF \E i \in 1..Len(str) : \A d \in 1..10 : Digits[d] # str[i] THEN -1
    ELSE LET last == (CHOOSE d \in 1..10 : Digits[d] = str[Len(str)]) - 1
         IN  IF Len(str) = 1 THEN last
             ELSE 10 * DecimalValue(SubSeq(str, 1, Len(str) - 1)) + last

\* Line number i of the file holds the two fields domain and count of entry
\* e, as a CSV reader reads them.
LineHolds(bytes, i, e) ==
    LET rec == ReaderRead(LinesOf(bytes)[i])
    IN  /\ rec.ok
        /\ Len(rec.record) = 2
        /\ rec.record[1] = e.Domain
        /\ DecimalValue(rec.record[2]) = e.Count

\* The file is the lines of the entries of report, in order, each ended by
\* a newline, and nothing else.
FileHolds(file, report) ==
    /\ file.created
    /\ file.bytes # <<>> => file.bytes[Len(file.bytes)] = "\n"
    /\ Len(LinesOf(file.bytes)) = Len(report)
    /\ \A i \in 1..Len(report) : LineHolds(file.bytes, i, report[i])

----------------------------------------------------------------------------
(* sortDomains on any table: SpecSort *)

\* C14: sortDomains returns one entry per key of the table, with the key's
\* count, in strictly ascending byte-wise order of the domains, and every
\* iteration order of the map gives this same slice.
C14_SortDomainsAscending ==
    pc \in {"save", "returned"} =>
       /\ Len(sortedDomains) = Cardinality(DOMAIN domainCounts)
       /\ \A d \in DOMAIN domainCounts :
             \E i \in 1..Len(sortedDomains) :
                sortedDomains[i] = [Domain |-> d, Count |-> domainCounts[d]]
       /\ \A i \in 1..(Len(sortedDomains) - 1) :
             LexBefore(sortedDomains[i].Domain, sortedDomains[i + 1].Domain)
       /\ \A o \in IterationOrders(domainCounts) :
             sortDomains(domainCounts, o) = sortedDomains

\* sortDomains sorted a table of three domains, with an upper-case name, a
\* name that is a prefix of another, and counts that are not in the order
\* of the names.
C14_Witness ==
    /\ pc = "returned"
    /\ DOMAIN domainCounts = {<<"E">>, <<"x">>, <<"x", ",", "y">>}
    /\ domainCounts[<<"E">>] = 1
    /\ domainCounts[<<"x">>] = 12
    /\ domainCounts[<<"x", ",", "y">>] = 2
    /\ result.report = <<[Domain |-> <<"E">>, Count |-> 1],
                         [Domain |-> <<"x">>, Count |-> 12],
                         [Domain |-> <<"x", ",", "y">>, Count |-> 2]>>

----------------------------------------------------------------------------
(* saveToFile on any slice: SpecSave *)

\* C17: when saveToFile returns nil, the destination was created and holds
\* the lines of the entries of the report, in the report's order, and
\* nothing else.
C17_SavedFileIsTheReport ==
    (pc = "returned" /\ result.err = NoError) => FileHolds(outFile, sortedDomains)

\* saveToFile wrote a report of two entries, one with a domain that needs
\* quotes and a count of two digits, and returned nil.
C17_Witness ==
    /\ pc = "returned"
    /\ result.err = NoError
    /\ sortedDomains = <<[Domain |-> <<"x", ",", "y">>, Count |-> 12],
                         [Domain |-> <<"E">>, Count |-> 1]>>
    /\ outFile.created
    /\ Len(outFile.bytes) = 13

----------------------------------------------------------------------------
(* sortAndSave on any table: SpecSortAndSave *)

\* C15: a sortAndSave that met no fault has written one line per key of the
\* table, with the key's count, and the counts of the lines do not increase
\* from one line to the next.
C15_SortAndSaveByCount ==
    (pc = "returned" /\ ioFault = "none") =>
       LET file == LinesOf(outFile.bytes)
       IN  /\ outFile.created
           /\ Len(file) = Cardinality(DOMAIN domainCounts)
           /\ \A d \in DOMAIN domainCounts :
                 \E i \in 1..Len(file) :
                    LineHolds(outFile.bytes, i, [Domain |-> d, Count |-> domainCounts[d]])
           /\ \A i \in 1..(Len(file) - 1) :
                 DecimalValue(ReaderRead(file[i]).record[2])
                    >= DecimalValue(ReaderRead(file[i + 1]).record[2])

\* sortAndSave wrote a table of three domains with three different counts.
C15_Witness ==
    /\ pc = "returned"
    /\ ioFault = "none"
    /\ Cardinality(DOMAIN domainCounts) = 3
    /\ Cardinality({domainCounts[d] : d \in DOMAIN domainCounts}) = 3
    /\ Len(LinesOf(outFile.bytes)) = 3

\* C16: two calls of sortAndSave on the same table write the same file,
\* also when domains have equal counts.
C16_TiesDeterministic ==
    (pc = "returned" /\ run = 2) => outFile = prev[1].outFile

\* C18: sortAndSave returns an error when os.Create fails and when the
\* flush of a non-empty output fails, so that a nil return means that every
\* entry is in the file.
C18_FailureIsReported ==
    pc = "returned" =>
       /\ ioFault = "create" => result.err # NoError
       /\ (ioFault = "flush" /\ sortedDomains # <<>>) => result.err # NoError
       /\ result.err = NoError => FileHolds(outFile, sortedDomains)

----------------------------------------------------------------------------
(* The two mutexes: Spec, continued *)

\* The goroutines of processLine that are between mutex.Lock() and
\* mutex.Unlock(), and those of countEmailDomains.
InsideAppend    == {i \in DOMAIN lineWorker : lineWorker[i].pc = "append"}
InsideIncrement == {i \in DOMAIN countWorker : countWorker[i].pc = "incr"}

\* C21 (state part): at most one goroutine is inside the append to the
\* record slice and it is the holder of its mutex; at most one goroutine is
\* inside the increment of the domain table and it is the holder of its
\* mutex.
C21_OneInside ==
    /\ Cardinality(InsideAppend) <= 1
    /\ \A i \in InsideAppend : lineMutex = i
    /\ Cardinality(InsideIncrement) <= 1
    /\ \A i \in InsideIncrement : countMutex = i

\* C21: mutual exclusion. The states are those of C21_OneInside; the record
\* slice changes only in a step of the goroutine that holds its mutex, the
\* domain table only in a step of the goroutine that holds its mutex, and a
\* step of a goroutine changes nothing else than its slice or table, its
\* mutex and its WaitGroup.
C21_MutualExclusion ==
    /\ []C21_OneInside
    /\ [][/\ records' # records =>
                /\ lineMutex \in InsideAppend
                /\ lineWorker'[lineMutex].pc = "done"
                /\ lineMutex' = 0
          /\ domainCounts' # domainCounts =>
                /\ countMutex \in InsideIncrement
                /\ countWorker'[countMutex].pc = "done"
                /\ countMutex' = 0
          /\ (\E i \in DOMAIN lineWorker :
                 lineWorker[i].pc # "idle" /\ lineWorker'[i] # lineWorker[i]) =>
                UNCHANGED <<pc, scanned, csvRecords, countVars, saveVars, result>>
          /\ (\E i \in DOMAIN countWorker :
                 countWorker[i].pc # "idle" /\ countWorker'[i] # countWorker[i]) =>
                UNCHANGED <<pc, readVars, csvRecords, emailColumn, dispatched,
                            saveVars, result>>]_vars

\* One goroutine is inside the append while two others, whose lines parse,
\* wait for the mutex.
C21_Witness ==
    /\ Cardinality(InsideAppend) = 1
    /\ Cardinality({i \in DOMAIN lineWorker :
                       lineWorker[i].pc = "run" /\ LineRecord[inputFile.lines[i]].ok}) = 2

\* One goroutine is inside the increment while another that has a domain
\* waits for the mutex.
C21_WitnessIncrement ==
    /\ Cardinality(InsideIncrement) = 1
    /\ \E i \in DOMAIN countWorker :
          /\ countWorker[i].pc = "run"
          /\ WellFormed(csvRecords[i], emailColumn)

----------------------------------------------------------------------------
(* The domain table during aggregation: SpecCount, continued *)

\* C22 (state part): every key of the domain table has a count of at least
\* one.
C22_CountsPositive == \A d \in DOMAIN domainCounts : domainCounts[d] >= 1

\* C22: during aggregation the domain table only grows. The states are
\* those of C22_CountsPositive; in every step every key stays in the table
\* with the same count or the count plus one, a new key enters with count
\* one, and at most one key changes.
C22_TableOnlyGrows ==
    /\ []C22_CountsPositive
    /\ [][/\ \A d \in DOMAIN domainCounts :
                /\ d \in DOMAIN domainCounts'
                /\ domainCounts'[d] \in {domainCounts[d], domainCounts[d] + 1}
          /\ \A d \in (DOMAIN domainCounts') \ (DOMAIN domainCounts) :
                domainCounts'[d] = 1
          /\ Cardinality({d \in DOMAIN domainCounts' :
                             d \notin DOMAIN domainCounts
                             \/ domainCounts'[d] # domainCounts[d]}) <= 1]_vars

\* The table holds one domain counted twice and another counted once while
\* countEmailDomains still runs.
C22_Witness ==
    /\ pc = "dispatch"
    /\ \E d, e \in DOMAIN domainCounts :
          d # e /\ domainCounts[d] = 2 /\ domainCounts[e] = 1
    /\ countWg > 0

----------------------------------------------------------------------------
(* Termination: SpecFair *)

\* The goroutines that were started and have not yet run their wg.Done().
LineRunning  == {i \in DOMAIN lineWorker : lineWorker[i].pc \in {"run", "append", "done"}}
CountRunning == {i \in DOMAIN countWorker : countWorker[i].pc \in {"run", "incr", "done"}}

\* C23 (state part): each WaitGroup counter is the number of started
\* goroutines that have not signalled yet, so it is never negative and
\* every goroutine signals exactly once; a held mutex is held by a goroutine
\* that is about to release it.
C23_CountersBalanced ==
    /\ lineWg = Cardinality(LineRunning)
    /\ countWg = Cardinality(CountRunning)
    /\ lineWg >= 0
    /\ countWg >= 0
    /\ lineMutex # 0 => lineMutex \in InsideAppend
    /\ countMutex # 0 => countMutex \in InsideIncrement

\* ProcessCustomers has returned, every goroutine that was started has
\* ended, and both mutexes are free.
AllEnded ==
    /\ pc = "returned"
    /\ LineRunning = {}
    /\ CountRunning = {}
    /\ lineMutex = 0
    /\ countMutex = 0

\* C23: under fair scheduling ProcessCustomers returns and every goroutine
\* it started ends with the mutexes released; the WaitGroup counters are
\* those of C23_CountersBalanced in every state.
C23_Terminates ==
    /\ []C23_CountersBalanced
    /\ <>[]AllEnded

\* ProcessCustomers returned a report after a run in which one line failed
\* to parse, one record was skipped and one was counted.
C23_Witness ==
    /\ AllEnded
    /\ result.err = NoError
    /\ \E i \in DOMAIN lineWorker :
          lineWorker[i].pc = "exit" /\ ~LineRecord[inputFile.lines[i]].ok
    /\ Len(csvRecords) = 2
    /\ SumCounts(domainCounts) = 1

----------------------------------------------------------------------------
(* The first record in the aggregation: SpecCount, continued *)

\* The number of records among recs[from..Len(recs)] whose field in column
\* col has exactly one "@" and the text d after it.
RecordsOfDomain(recs, from, col, d) ==
    Cardinality({i \in from..Len(recs) :
                    /\ Len(recs[i]) > col
                    /\ CountAt(recs[i][col + 1]) = 1
                    /\ AfterAt(recs[i][col + 1]) = d})

\* C24: records[0] is aggregated like every other record. When its field in
\* the email column has exactly one "@", its domain is a key of the returned
\* table and the count of that domain is one more than the number of later
\* records of that domain; otherwise every count of the table is the number
\* of later records of its domain.
C24_FirstRecordCounted ==
    pc = "sort" =>
       LET first == csvRecords[1]
       IN  IF Len(first) > emailColumn /\ CountAt(first[emailColumn + 1]) = 1
           THEN LET d == AfterAt(first[emailColumn + 1])
                IN  /\ d \in DOMAIN domainCounts
                    /\ domainCounts[d] = 1 + RecordsOfDomain(csvRecords, 2, emailColumn, d)
           ELSE \A d \in DOMAIN domainCounts :
                   domainCounts[d] = RecordsOfDomain(csvRecords, 2, emailColumn, d)

\* The first record is a data row, the only one of its domain, and it was
\* counted beside two records of another domain.
C24_Witness ==
    /\ pc = "sort"
    /\ Len(csvRecords) = 3
    /\ CountAt(csvRecords[1][emailColumn + 1]) = 1
    /\ domainCounts[AfterAt(csvRecords[1][emailColumn + 1])] = 1
    /\ Cardinality(DOMAIN domainCounts) = 2

\* The first record is a header whose email field is the literal email, and
\* it was not counted: the one later record is the whole table.
C24_WitnessHeader ==
    /\ pc = "sort"
    /\ Len(csvRecords) = 2
    /\ ToLower(csvRecords[1][emailColumn + 1]) = Str_email
    /\ SumCounts(domainCounts) = 1

====
